---- MODULE Spec2Model ----
(***************************************************************************)
(* Model of the heimdall admission webhook: the HTTP transport             *)
(* (doServeAdmitFunc / serveAdmitFunc, in its four versions in the         *)
(* repository), the ownership policy (processResourceChanges, in its two   *)
(* versions) and the reconciliation publisher (queueResourceForReconcile). *)
(* An admit function goes with the transport whose admitFunc type it has:  *)
(* the three-parameter policy of part_001 with cmd/admission, the          *)
(* two-parameter policy of main.go with part_000.                          *)
(*                                                                         *)
(* Strings that the code takes apart or compares (addresses, label values) *)
(* are sequences of tokens; "" is the empty sequence.  Messages built with *)
(* fmt.Errorf are the token sequences of their literal and formatted parts.*)
(***************************************************************************)
EXTENDS Naturals, Sequences, FiniteSets, TLC

VARIABLES req, pc, dec, out, resp, errs,
          replay, handlers, publishers, kafka, services, brokerList, resource

vars == <<req, pc, dec, out, resp, errs,
          replay, handlers, publishers, kafka, services, brokerList, resource>>

\* the state of one request under one handler, the state of concurrently
\* served requests, of concurrent publishes and their Kafka cluster, and of
\* a broker discovery, and of one resource under a sequence of updates
webVars == <<req, pc, dec, out, resp>>
replayVars == <<replay>>
concVars == <<handlers>>
kafkaVars == <<publishers, kafka>>
brokerVars == <<services, brokerList>>
seqVars == <<resource>>

-----------------------------------------------------------------------------
(* Bounds of the model *)

\* spec payloads are 1..NumSpecs
NumSpecs == 2
\* request UIDs are 1..NumUIDs
NumUIDs == 2

-----------------------------------------------------------------------------
(* Program constants *)

ownerLabel == "app.heimdall.io/owner"
priorityLabel == "app.heimdall.io/priority"
jsonContentType == "application/json"
MethodPost == "POST"
NamespacePublic == "kube-public"
NamespaceSystem == "kube-system"

StatusOK == 200
StatusBadRequest == 400
StatusMethodNotAllowed == 405
StatusInternalServerError == 500

-----------------------------------------------------------------------------
(* Values *)

EmptyStr == <<>>
ipA == <<"10.0.0.5">>
ipB == <<"10.0.0.9">>
valX == <<"x">>
valHigh == <<"high">>
teamLabel == "team"

LabelKeys == {ownerLabel, priorityLabel, teamLabel}
LabelVals == {EmptyStr, ipA, ipB, valX, valHigh}

\* the label maps whose owner/priority/team values lie in the given sets
LabelMaps(ownerVals, prioVals, teamVals) ==
    { f \in UNION { [D -> LabelVals] : D \in SUBSET LabelKeys } :
        /\ ownerLabel \in DOMAIN f => f[ownerLabel] \in ownerVals
        /\ priorityLabel \in DOMAIN f => f[priorityLabel] \in prioVals
        /\ teamLabel \in DOMAIN f => f[teamLabel] \in teamVals }

NoLabels == [k \in {} |-> EmptyStr]

\* an object as it stands in the admission review: a JSON object (with or
\* without a "kind"), the JSON null, or no field at all
MapObject(k, s, l) == [shape |-> "map", hasKind |-> k, spec |-> s, labels |-> l]
NullObject == [shape |-> "null", hasKind |-> FALSE, spec |-> 0, labels |-> NoLabels]
AbsentObject == [shape |-> "absent", hasKind |-> FALSE, spec |-> 0, labels |-> NoLabels]

OldObjects ==
    {NullObject, AbsentObject} \cup
    { MapObject(k, 1, l) : k \in BOOLEAN,
                           l \in LabelMaps({EmptyStr, ipA}, {}, {valX}) }

NewObjects ==
    {NullObject, AbsentObject} \cup
    { MapObject(k, s, l) : k \in BOOLEAN, s \in 1..NumSpecs,
                           l \in LabelMaps({EmptyStr, ipA, ipB}, {valHigh}, {EmptyStr, valX}) }

RemoteAddrs == { ipA \o <<":", "40000">>, ipB \o <<":", "40000">> }
Namespaces == {"default", NamespaceSystem, NamespacePublic}

\* how the body is encoded: one JSON document, one YAML document, bytes that
\* are neither, two JSON documents of which the second lies beyond what a
\* streaming decoder reads ahead while it decodes the first, or one JSON
\* document followed beyond that read-ahead by bytes that are no document
Encodings == {"json", "yaml", "garbage", "json2", "jsonTail"}

\* how r.Body delivers its bytes: all of them, the first document and then a
\* read error (a body shorter than its Content-Length), or a read error
\* before any document is complete
Streams == {"whole", "cut", "broken"}

Request(m, ct, st, enc, hr, u, ns, ra, old, new) ==
    [method |-> m, contentType |-> ct, stream |-> st, encoding |-> enc,
     hasRequest |-> hr, uid |-> u, namespace |-> ns, remoteAddr |-> ra,
     oldObject |-> old, object |-> new]

\* ioutil.ReadAll(r.Body) returns without error, whether it reads the body
\* from its start or what a decoder has left of it
ReadAll(r) == r.stream = "whole"

\* requests that pass transport validation, over every object pair
WellFormed ==
    { Request(MethodPost, jsonContentType, "whole", enc, TRUE, u, ns, ra, old, new) :
        enc \in {"json", "json2"}, u \in 1..NumUIDs, ns \in Namespaces,
        ra \in RemoteAddrs, old \in OldObjects, new \in NewObjects }

\* object pairs used under a malformed transport: a spec change and a label
\* change on an owned object, and an unchanged object
FewOld == { MapObject(TRUE, 1, (ownerLabel :> ipA)) }
FewNew == { MapObject(TRUE, 1, (ownerLabel :> ipA)),
            MapObject(TRUE, NumSpecs, (ownerLabel :> ipA)),
            MapObject(TRUE, 1, (ownerLabel :> ipA) @@ (teamLabel :> valX)) }

Malformed ==
    { r \in { Request(m, ct, st, enc, hr, 1, ns, ipB \o <<":", "40000">>, old, new) :
                m \in {MethodPost, "GET"}, ct \in {jsonContentType, "text/plain"},
                st \in Streams, enc \in Encodings, hr \in BOOLEAN,
                ns \in {"default"}, old \in FewOld, new \in FewNew } :
        ~ ( /\ r.method = MethodPost /\ r.contentType = jsonContentType
            /\ ReadAll(r) /\ r.encoding \in {"json", "json2"} /\ r.hasRequest ) }

Requests == WellFormed \cup Malformed

\* what the broker side does to a publish: nothing wrong, or the step that fails
KafkaFaults == {"none", "discovery", "connect", "topic", "send"}

-----------------------------------------------------------------------------
(* Go values *)

Nil == [nil |-> TRUE, msg |-> <<>>]
Errorf(parts) == [nil |-> FALSE, msg |-> parts]

\* m[k] on a Go map: the zero value for a key that is not there
Lookup(labels, k) == IF k \in DOMAIN labels THEN labels[k] ELSE EmptyStr

\* (*Unstructured).GetLabels
GetLabels(obj) == IF obj.shape = "map" THEN obj.labels ELSE NoLabels

\* strings.Split(s, ":")[0]: the tokens before the first ":"
RECURSIVE SplitHead(_)
SplitHead(s) ==
    IF s = <<>> \/ Head(s) = ":" THEN <<>>
    ELSE <<Head(s)>> \o SplitHead(Tail(s))

\* whether strings.Split(s, ":") has a second element
HasColon(s) == \E i \in 1..Len(s) : s[i] = ":"

\* json.Unmarshal(raw, &unstructured.Unstructured{}): the raw bytes must be
\* a JSON object that carries a kind
Unmarshal(obj) == obj.shape = "map" /\ obj.hasKind

\* reflect.DeepEqual(existingObj.Object, newObj.Object)
DeepEqual(a, b) == a = b

-----------------------------------------------------------------------------
(* Reconciliation publisher: main.go *)

\* queueResourceForReconcile: discovery, connect, topic, send, each once, the
\* first failure returned
queueResourceForReconcile(fault) ==
    IF fault = "discovery" THEN
        [err |-> Errorf(<<"discovery">>), steps |-> <<"discovery">>, sent |-> 0]
    ELSE IF fault = "connect" THEN
        [err |-> Errorf(<<"connect">>), steps |-> <<"discovery", "connect">>, sent |-> 0]
    ELSE IF fault = "topic" THEN
        [err |-> Errorf(<<"topic">>), steps |-> <<"discovery", "connect", "topic">>, sent |-> 0]
    ELSE IF fault = "send" THEN
        [err |-> Errorf(<<"send">>),
         steps |-> <<"discovery", "connect", "topic", "send">>, sent |-> 0]
    ELSE
        [err |-> Nil, steps |-> <<"discovery", "connect", "topic", "send">>, sent |-> 1]

-----------------------------------------------------------------------------
(* Ownership policy: main.go *)

\* what an admit function hands back, with the path it took, the identities
\* it compared and the publish attempts it made on the way
Decision(e, why, n, s) ==
    [called |-> TRUE, err |-> e, patchOps |-> "nil", path |-> why,
     publishes |-> n, sent |-> s, sender |-> EmptyStr, owner |-> EmptyStr]
NoDecision ==
    [called |-> FALSE, err |-> Nil, patchOps |-> "nil", path |-> "none",
     publishes |-> 0, sent |-> 0, sender |-> EmptyStr, owner |-> EmptyStr]
Compared(d, senderIP, ownerIP) == [d EXCEPT !.sender = senderIP, !.owner = ownerIP]

allowedLabels == {ownerLabel, priorityLabel}

\* main.go:87 with the spec comparison left out
specChanged_never(existingObj, newObj) == FALSE

\* main.go:87
specChanged(existingObj, newObj) == existingObj.spec # newObj.spec

\* main.go:103-104: the labels of the new object at which the loop returns
offendingLabels(existingLabels, newLabels) ==
    { k \in DOMAIN newLabels :
        k \notin allowedLabels /\ Lookup(existingLabels, k) # newLabels[k] }

\* main.go:88-93 and 105-110 with a failed publish only logged
denyAndQueue_swallow(denial, fault, why) ==
    LET q == queueResourceForReconcile(fault) IN
    IF ~ q.err.nil
    THEN Decision(Nil, why, 1, q.sent)
    ELSE Decision(Errorf(denial), why, 1, q.sent)

\* main.go:88-93 and 105-110: one publish attempt, then the error returned
denyAndQueue(denial, fault, why) ==
    LET q == queueResourceForReconcile(fault) IN
    IF ~ q.err.nil
    THEN Decision(Errorf(<<"ERROR: failed to queue resource for reconcile: ">> \o q.err.msg),
                  why, 1, q.sent)
    ELSE Decision(Errorf(denial), why, 1, q.sent)

\* main.go:81 with the owner never recognised
ownerMatches_never(senderIP, ownerIP) == FALSE

\* main.go:81
ownerMatches(senderIP, ownerIP) == senderIP = ownerIP

\* main.go:72-116: the decision on the decoded objects.  fault is what the
\* broker side does to a publish; first is the label the map iteration
\* visits first.
decide(existingObj, newObj, senderIP, fault, first) ==
    IF DeepEqual(existingObj, newObj) THEN
        Decision(Nil, "equal", 0, 0)
    ELSE
    LET ownerIP == Lookup(GetLabels(existingObj), ownerLabel) IN
    IF ownerMatches(senderIP, ownerIP) THEN
        Compared(Decision(Nil, "owner", 0, 0), senderIP, ownerIP)
    ELSE IF specChanged(existingObj, newObj) THEN
        Compared(denyAndQueue(<<"DENIED: non-owner ">> \o senderIP \o <<" cannot change Spec">>,
                              fault, "spec"), senderIP, ownerIP)
    ELSE
    LET bad == offendingLabels(GetLabels(existingObj), GetLabels(newObj)) IN
    IF bad # {} THEN
        LET k == IF first \in bad THEN first ELSE CHOOSE x \in bad : TRUE
            v == GetLabels(newObj)[k]
        IN Compared(denyAndQueue(<<"DENIED: non-owner changes are not permitted to non-Heimdall label (",
                                   k, ": ">> \o v \o <<")">>, fault, "label"), senderIP, ownerIP)
    ELSE
        Compared(Decision(Nil, "pass", 0, 0), senderIP, ownerIP)

\* main.go:61-70 with the new object never decoded: newObj stays the empty
\* Unstructured
processResourceChanges_newNotDecoded(r, senderIP, fault, first) ==
    IF ~ Unmarshal(r.oldObject) THEN
        Decision(Errorf(<<"ERROR: admision controller failed decoding existing object: ", "err">>),
                 "decodeOld", 0, 0)
    ELSE decide(r.oldObject, MapObject(FALSE, 0, NoLabels), senderIP, fault, first)

\* processResourceChanges(req, senderIP) of main.go
processResourceChanges(r, senderIP, fault, first) ==
    IF ~ Unmarshal(r.oldObject) THEN
        Decision(Errorf(<<"ERROR: admision controller failed decoding existing object: ", "err">>),
                 "decodeOld", 0, 0)
    ELSE IF ~ Unmarshal(r.object) THEN
        Decision(Errorf(<<"ERROR: admission controller failed decoding new object: ", "err">>),
                 "decodeNew", 0, 0)
    ELSE decide(r.oldObject, r.object, senderIP, fault, first)

-----------------------------------------------------------------------------
(* Ownership policy: the three-argument version (unnamed/part_001) *)

\* processResourceChanges(req, senderIP, ownerIP)
processResourceChanges_p1(r, senderIP, ownerIP) ==
    IF senderIP = ownerIP
    THEN Compared(Decision(Nil, "owner", 0, 0), senderIP, ownerIP)
    ELSE Compared(Decision(Errorf(<<"IPs do not match">>), "mismatch", 0, 0),
                  senderIP, ownerIP)

-----------------------------------------------------------------------------
(* The admit callback *)

\* the admit functions handed to admitFuncHandler: processResourceChanges of
\* main.go (with what the broker side and the map iteration do during the
\* call), processResourceChanges of part_001, and for cmd/webhook-server,
\* whose admit function is not among the sources, one that returns e
AdmitPolicy(fault, first) ==
    [fn |-> "main", fault |-> fault, first |-> first, err |-> Nil]
AdmitIP == [fn |-> "part_001", fault |-> "none", first |-> ownerLabel, err |-> Nil]
AdmitReturning(e) == [fn |-> "extern", fault |-> "none", first |-> ownerLabel, err |-> e]

\* admit(req, ...): the call through the admitFunc value
Call(admit, r, senderIP, ownerIP) ==
    IF admit.fn = "main" THEN processResourceChanges(r, senderIP, admit.fault, admit.first)
    ELSE IF admit.fn = "part_001" THEN processResourceChanges_p1(r, senderIP, ownerIP)
    ELSE Decision(admit.err, "admit", 0, 0)

-----------------------------------------------------------------------------
(* Wire codec *)

\* universalDeserializer.Decode(body, nil, &admissionReviewReq) on a whole
\* body: "err", "nilRequest" (decoded, Request == nil) or "ok"
DecodeReview(r) ==
    IF r.encoding \in {"garbage", "json2", "jsonTail"} THEN "err"
    ELSE IF ~ r.hasRequest THEN "nilRequest"
    ELSE "ok"

\* json.NewDecoder(r.Body).Decode(&requestJson): the first JSON value of the
\* stream; a read error that comes after the value is complete is not seen
DecodeJson(r) == r.stream # "broken" /\ r.encoding \in {"json", "json2", "jsonTail"}

\* the admission review response under construction
NoReview ==
    [uid |-> 0, allowed |-> FALSE, hasResult |-> FALSE, message |-> <<>>,
     patch |-> "absent", patchType |-> "absent"]

\* v1beta1.AdmissionReview{Response: &v1beta1.AdmissionResponse{UID: ...}}
NewReview(uid) == [NoReview EXCEPT !.uid = uid]

\* Response.Allowed = false; Response.Result = &metav1.Status{Message: err.Error()}
Deny(review, err) ==
    [review EXCEPT !.allowed = FALSE, !.hasResult = TRUE, !.message = err.msg]

\* json.Marshal(patchOps) of the nil slice is "null"
MarshalPatch(patchOps) == IF patchOps = "nil" THEN "null" ELSE patchOps

\* Response.Allowed = true; Response.Patch = patchBytes; PatchType = JSONPatch
Allow(review, patchOps) ==
    [review EXCEPT !.allowed = TRUE, !.patch = MarshalPatch(patchOps),
                   !.patchType = "JSONPatch"]

\* isKubeNamespace with no namespace recognised
isKubeNamespace_never(ns) == FALSE

\* isKubeNamespace
isKubeNamespace(ns) == ns = NamespacePublic \/ ns = NamespaceSystem

-----------------------------------------------------------------------------
(* What doServeAdmitFunc leaves behind: its return values, the status it  *)
(* passed to w.WriteHeader (0: none), whether it read the body, the admit  *)
(* call it made and what it appended to errs.                              *)

Returned(kind, e, hdr, rv, rd, d, added) ==
    [ret |-> kind, err |-> e, header |-> hdr, review |-> rv, bodyRead |-> rd,
     dec |-> d, errsAdded |-> added]

\* return nil, err after w.WriteHeader(hdr)
Fail(hdr, e, rd, added) == Returned("err", e, hdr, NoReview, rd, NoDecision, added)
\* return bytes, nil: the marshalled review
Bytes(rv, d) == Returned("bytes", Nil, 0, rv, TRUE, d, <<>>)
\* a failed type assertion: the handler goroutine panics
Panic(rd) == Returned("panic", Nil, 0, NoReview, rd, NoDecision, <<>>)

-----------------------------------------------------------------------------
(* Webhook transport: cmd/admission/admission_controller.go *)

\* lines 106-125: the owner label of the object in the request, the sender
\* address when that label is not set
ownerIPOf(labelOwner, senderIP) ==
    IF labelOwner # EmptyStr THEN labelOwner ELSE senderIP

\* lines 138-166
dispatch(r, senderIP, ownerIP, admit) ==
    LET review == NewReview(r.uid) IN
    IF ~ isKubeNamespace(r.namespace) THEN
        LET d == Call(admit, r, senderIP, ownerIP) IN
        IF ~ d.err.nil
        THEN Bytes(Deny(review, d.err), d)
        ELSE Bytes(Allow(review, d.patchOps), d)
    ELSE Bytes(review, NoDecision)

\* doServeAdmitFunc(w, r, admit)
doServeAdmitFunc(r, admit) ==
    IF r.method # MethodPost THEN
        Fail(StatusMethodNotAllowed,
             Errorf(<<"invalid method ", r.method, ", only POST requests are allowed">>),
             FALSE, <<>>)
    ELSE IF ~ ReadAll(r) THEN
        Fail(StatusBadRequest, Errorf(<<"could not read request body: ", "err">>),
             TRUE, <<"Could not read request body">>)
    ELSE IF r.contentType # jsonContentType THEN
        Fail(StatusBadRequest,
             Errorf(<<"unsupported content type ", r.contentType, ", only ",
                      jsonContentType, " is supported">>),
             TRUE, <<"unsupported content type">>)
    ELSE IF DecodeReview(r) = "err" THEN
        Fail(StatusBadRequest, Errorf(<<"could not deserialize request: ", "err">>),
             TRUE, <<"could not deserialize request">>)
    ELSE IF DecodeReview(r) = "nilRequest" THEN
        Fail(StatusBadRequest, Errorf(<<"malformed admission review: request is nil">>),
             TRUE, <<"malformed admission review: request is nil">>)
    ELSE IF ~ DecodeJson(r) THEN
        Fail(StatusBadRequest, Errorf(<<"json: ", "err">>), TRUE, <<>>)
    ELSE IF r.object.shape # "map" THEN
        Panic(TRUE)
    ELSE
        LET senderIP == SplitHead(r.remoteAddr)
            ownerIP == ownerIPOf(Lookup(GetLabels(r.object), ownerLabel), senderIP)
        IN dispatch(r, senderIP, ownerIP, admit)

-----------------------------------------------------------------------------
(* Webhook transport: the two-argument version (unnamed/part_000) *)

\* return nil, nil after w.WriteHeader(http.StatusOK)
NilNil == Returned("nil", Nil, StatusOK, NoReview, TRUE, NoDecision, <<>>)

\* lines 129-162
dispatch_p0(r, senderIP, admit) ==
    LET review == NewReview(r.uid) IN
    IF ~ isKubeNamespace(r.namespace) THEN
        LET d == Call(admit, r, senderIP, EmptyStr) IN
        IF ~ d.err.nil
        THEN Bytes(Deny(review, d.err), d)
        ELSE Bytes(Allow(review, d.patchOps), d)
    ELSE Bytes(review, NoDecision)

\* doServeAdmitFunc(w, r, admit)
doServeAdmitFunc_p0(r, admit) ==
    IF r.method # MethodPost THEN
        Fail(StatusMethodNotAllowed,
             Errorf(<<"invalid method ", r.method, ", only POST requests are allowed">>),
             FALSE, <<>>)
    ELSE IF ~ ReadAll(r) THEN
        Fail(StatusBadRequest, Errorf(<<"could not read request body: ", "err">>), TRUE, <<>>)
    ELSE IF r.contentType # jsonContentType THEN
        Fail(StatusBadRequest,
             Errorf(<<"unsupported content type ", r.contentType, ", only ",
                      jsonContentType, " is supported">>),
             TRUE, <<>>)
    ELSE IF DecodeReview(r) = "err" THEN
        Fail(StatusBadRequest, Errorf(<<"could not deserialize request: ", "err">>),
             TRUE, <<>>)
    ELSE IF DecodeReview(r) = "nilRequest" THEN
        Fail(StatusBadRequest, Errorf(<<"malformed admission review: request is nil">>),
             TRUE, <<>>)
    ELSE IF ~ DecodeJson(r) THEN
        Fail(StatusBadRequest, Errorf(<<"json: ", "err">>), TRUE, <<>>)
    ELSE IF r.object.shape # "map" \/ r.oldObject.shape # "map" THEN
        Panic(TRUE)
    ELSE IF Lookup(GetLabels(r.object), ownerLabel) = EmptyStr THEN
        NilNil
    ELSE
        dispatch_p0(r, SplitHead(r.remoteAddr), admit)

-----------------------------------------------------------------------------
(* Webhook transport: cmd/webhook-server/admission_controller.go *)

\* ioutil.ReadAll(r.Body) after json.NewDecoder(r.Body).Decode has consumed
\* the first document: what is left of the stream
RestOfBody(r) ==
    IF r.encoding = "json2" THEN "json"
    ELSE IF r.encoding = "jsonTail" THEN "garbage"
    ELSE "empty"

\* universalDeserializer.Decode on the rest of the body; the empty input
\* decodes (as YAML) to a review without a request
DecodeRest(r) ==
    IF RestOfBody(r) = "garbage" THEN "err"
    ELSE IF RestOfBody(r) = "empty" \/ ~ r.hasRequest THEN "nilRequest"
    ELSE "ok"

\* lines 104-139: the admit call, then the owner check on the new object
dispatch_ws(r, requesterIP, admit) ==
    LET review == NewReview(r.uid)
        d == Call(admit, r, EmptyStr, EmptyStr)
        afterAdmit == IF ~ d.err.nil THEN Deny(review, d.err) ELSE review
        ownerIP == Lookup(GetLabels(r.object), ownerLabel)
    IN
    IF ownerIP # EmptyStr THEN
        IF ownerIP # requesterIP THEN
            Bytes(Deny(afterAdmit,
                       Errorf(<<"owner ip ">> \o ownerIP
                              \o <<" does not match request address ">>
                              \o r.remoteAddr \o <<", denying the request">>)), d)
        ELSE
            Bytes([afterAdmit EXCEPT !.allowed = TRUE,
                                     !.patch = MarshalPatch(d.patchOps),
                                     !.hasResult = TRUE,
                                     !.message = <<"owner ip ">> \o ownerIP
                                           \o <<" matches request address ">>
                                           \o r.remoteAddr
                                           \o <<", admitting the request">>], d)
    ELSE Bytes(afterAdmit, d)

\* doServeAdmitFunc(w, r, admit)
doServeAdmitFunc_ws(r, admit) ==
    IF ~ DecodeJson(r) THEN
        Fail(0, Errorf(<<"json: ", "err">>), TRUE, <<"could not decode request body">>)
    ELSE IF r.method # MethodPost THEN
        Fail(StatusMethodNotAllowed,
             Errorf(<<"invalid method ", r.method, ", only POST requests are allowed">>),
             TRUE, <<>>)
    ELSE IF ~ ReadAll(r) THEN
        Fail(StatusBadRequest, Errorf(<<"could not read request body: ", "err">>),
             TRUE, <<"Could not read request body">>)
    ELSE IF r.contentType # jsonContentType THEN
        Fail(StatusBadRequest,
             Errorf(<<"unsupported content type ", r.contentType, ", only ",
                      jsonContentType, " is supported">>),
             TRUE, <<"unsupported content type">>)
    ELSE IF DecodeRest(r) = "err" THEN
        Fail(StatusBadRequest, Errorf(<<"could not deserialize request: ", "err">>),
             TRUE, <<"could not deserialize request">>)
    ELSE IF DecodeRest(r) = "nilRequest" THEN
        Fail(StatusBadRequest, Errorf(<<"malformed admission review: request is nil">>),
             TRUE, <<"malformed admission review: request is nil">>)
    ELSE IF ~ HasColon(r.remoteAddr) \/ r.object.shape # "map" THEN
        Panic(TRUE)
    ELSE
        dispatch_ws(r, SplitHead(r.remoteAddr), admit)

-----------------------------------------------------------------------------
(* Webhook transport: the one-parameter version of unnamed/part_002, which *)
(* only logs the owner label                                               *)

\* lines 129-165: admit is skipped in a reserved namespace, and the response
\* is allowed whenever no error came back
dispatch_p2(r, admit) ==
    LET review == NewReview(r.uid)
        d == IF ~ isKubeNamespace(r.namespace)
             THEN Call(admit, r, EmptyStr, EmptyStr)
             ELSE NoDecision
    IN
    IF ~ d.err.nil
    THEN Bytes(Deny(review, d.err), d)
    ELSE Bytes([review EXCEPT !.allowed = TRUE, !.patch = MarshalPatch(d.patchOps)], d)

\* doServeAdmitFunc(w, r, admit)
doServeAdmitFunc_p2(r, admit) ==
    IF ~ DecodeJson(r) THEN
        Fail(0, Errorf(<<"json: ", "err">>), TRUE, <<>>)
    ELSE IF ~ r.hasRequest \/ r.object.shape # "map" THEN
        Panic(TRUE)
    ELSE IF r.method # MethodPost THEN
        Fail(StatusMethodNotAllowed,
             Errorf(<<"invalid method ", r.method, ", only POST requests are allowed">>),
             TRUE, <<>>)
    ELSE IF ~ ReadAll(r) THEN
        Fail(StatusBadRequest, Errorf(<<"could not read request body: ", "err">>),
             TRUE, <<>>)
    ELSE IF r.contentType # jsonContentType THEN
        Fail(StatusBadRequest,
             Errorf(<<"unsupported content type ", r.contentType, ", only ",
                      jsonContentType, " is supported">>),
             TRUE, <<>>)
    ELSE IF DecodeRest(r) = "err" THEN
        Fail(StatusBadRequest, Errorf(<<"could not deserialize request: ", "err">>),
             TRUE, <<>>)
    ELSE IF DecodeRest(r) = "nilRequest" THEN
        Fail(StatusBadRequest, Errorf(<<"malformed admission review: request is nil">>),
             TRUE, <<>>)
    ELSE
        dispatch_p2(r, admit)

-----------------------------------------------------------------------------
(* serveAdmitFunc and the http.ResponseWriter *)

\* w.WriteHeader with a later status replacing the one already written
WriteHeader_lastWins(status, code) == code

\* w.WriteHeader: the first status written stays
WriteHeader(status, code) == IF status = 0 THEN code ELSE status

\* w.Write: an implicit WriteHeader(http.StatusOK)
Write(status) == WriteHeader(status, StatusOK)

NoResponse == [status |-> 0, kind |-> "none", review |-> NoReview, text |-> <<>>]

\* serveAdmitFunc(w, r, admit), given what doServeAdmitFunc left behind
serveAdmitFunc(o) ==
    IF o.ret = "panic" THEN NoResponse
    ELSE IF o.ret = "err" THEN
        [status |-> Write(WriteHeader(o.header, StatusInternalServerError)),
         kind |-> "text", review |-> NoReview, text |-> o.err.msg]
    ELSE IF o.ret = "nil" THEN
        [status |-> Write(o.header), kind |-> "empty", review |-> NoReview, text |-> <<>>]
    ELSE
        [status |-> Write(o.header), kind |-> "review", review |-> o.review,
         text |-> <<>>]

-----------------------------------------------------------------------------
(* The state machine: one request arrives and is handled once, by one of   *)
(* the handlers of the repository.                                         *)

NotReturned == Returned("none", Nil, 0, NoReview, FALSE, NoDecision, <<>>)

Init ==
    /\ req \in Requests
    /\ pc = "recv"
    /\ dec = NoDecision
    /\ out = NotReturned
    /\ resp = NoResponse
    /\ errs = <<>>
    /\ replay = NoDecision
    /\ handlers = <<>>
    /\ publishers = <<>> /\ kafka = <<>>
    /\ services = <<>> /\ brokerList = <<>>
    /\ resource = <<>>

\* the HTTP handler: serveAdmitFunc around what doServeAdmitFunc returned
Serve(o, handler) ==
    /\ pc = "recv"
    /\ pc' = handler
    /\ out' = o
    /\ dec' = o.dec
    /\ resp' = serveAdmitFunc(o)
    /\ errs' = errs \o o.errsAdded
    /\ UNCHANGED <<req, replayVars, concVars, kafkaVars, brokerVars, seqVars>>

\* cmd/admission/admission_controller.go with the three-argument policy
ServeAdmission ==
    Serve(doServeAdmitFunc(req, AdmitIP), "admission")

\* unnamed/part_000 with the policy of main.go
ServePolicy ==
    \E fault \in KafkaFaults, first \in LabelKeys :
        Serve(doServeAdmitFunc_p0(req, AdmitPolicy(fault, first)), "policy")

\* cmd/webhook-server/admission_controller.go; its admit function is not in
\* the repository's sources and returns nil or an error
ServeWebhook ==
    \E e \in {Nil, Errorf(<<"admit error">>)} :
        Serve(doServeAdmitFunc_ws(req, AdmitReturning(e)), "webhook")

\* unnamed/part_002; its admit function is not in the repository's sources
\* and returns nil or an error
ServeLogOnly ==
    \E e \in {Nil, Errorf(<<"admit error">>)} :
        Serve(doServeAdmitFunc_p2(req, AdmitReturning(e)), "part_002")

\* processResourceChanges of main.go applied to the request
Decide ==
    \E fault \in KafkaFaults, first \in LabelKeys :
        /\ pc = "recv"
        /\ pc' = "decide"
        /\ dec' = processResourceChanges(req, SplitHead(req.remoteAddr), fault, first)
        /\ UNCHANGED <<req, out, resp, errs, replayVars, concVars, kafkaVars, brokerVars, seqVars>>

\* processResourceChanges of unnamed/part_001 applied to the request
DecideIP ==
    \E ownerIP \in {EmptyStr, ipA, ipB} :
        /\ pc = "recv"
        /\ pc' = "decideIP"
        /\ dec' = processResourceChanges_p1(req, SplitHead(req.remoteAddr), ownerIP)
        /\ UNCHANGED <<req, out, resp, errs, replayVars, concVars, kafkaVars, brokerVars, seqVars>>

Next ==
    \/ ServeAdmission
    \/ ServePolicy
    \/ ServeWebhook
    \/ ServeLogOnly
    \/ Decide
    \/ DecideIP

Spec == Init /\ [][Next]_vars

-----------------------------------------------------------------------------
(* Idle values of the state that a specification does not use *)

WebIdle ==
    /\ req = <<>> /\ pc = "idle" /\ dec = NoDecision
    /\ out = NotReturned /\ resp = NoResponse
ReplayIdle == replay = NoDecision
ConcIdle == handlers = <<>>
KafkaIdle == publishers = <<>> /\ kafka = <<>>
BrokerIdle == services = <<>> /\ brokerList = <<>>
SeqIdle == resource = <<>>

-----------------------------------------------------------------------------
(* The policy called twice on one request: processResourceChanges of       *)
(* main.go, each call with its own map iteration order and its own         *)
(* publish outcome.                                                        *)

envLabel == "env"
ReplayKeys == LabelKeys \cup {envLabel}

\* the labels outside allowedLabels that the objects of a replayed request
\* may carry
ReplayLabels ==
    UNION { [D -> {EmptyStr, valX, valHigh}] : D \in SUBSET {teamLabel, envLabel} }

ReplayOld ==
    { MapObject(TRUE, 1, (ownerLabel :> ipA) @@ l) :
        l \in {NoLabels, (teamLabel :> valX)} }
ReplayNew ==
    { MapObject(TRUE, s, (ownerLabel :> ipA) @@ l) :
        s \in 1..NumSpecs, l \in ReplayLabels }

ReplayRequests ==
    { Request(MethodPost, jsonContentType, "whole", "json", TRUE, 1, "default", ra, old, new) :
        ra \in RemoteAddrs, old \in ReplayOld, new \in ReplayNew }

InitReplay ==
    /\ req \in ReplayRequests
    /\ pc = "recv"
    /\ dec = NoDecision /\ out = NotReturned /\ resp = NoResponse
    /\ errs = <<>>
    /\ ReplayIdle /\ ConcIdle /\ KafkaIdle /\ BrokerIdle /\ SeqIdle

\* the first call of processResourceChanges(req, senderIP)
FirstCall ==
    \E fault \in KafkaFaults, first \in ReplayKeys :
        /\ pc = "recv"
        /\ pc' = "decided"
        /\ dec' = processResourceChanges(req, SplitHead(req.remoteAddr), fault, first)
        /\ UNCHANGED <<req, out, resp, errs, replayVars, concVars, kafkaVars, brokerVars, seqVars>>

\* the same request handed to processResourceChanges again
ReplayCall ==
    \E fault \in KafkaFaults, first \in ReplayKeys :
        /\ pc = "decided"
        /\ pc' = "replayed"
        /\ replay' = processResourceChanges(req, SplitHead(req.remoteAddr), fault, first)
        /\ UNCHANGED <<req, dec, out, resp, errs, concVars, kafkaVars, brokerVars, seqVars>>

NextReplay == FirstCall \/ ReplayCall

SpecReplay == InitReplay /\ [][NextReplay]_vars

-----------------------------------------------------------------------------
(* Requests served concurrently: net/http runs serveAdmitFunc on one       *)
(* goroutine per connection, and the handlers of cmd/admission share the   *)
(* package variable errs, which is appended to without a lock and never    *)
(* cleared.  errs = append(errs, x) is a read of errs followed by a write, *)
(* so of two unsynchronised appends one can overwrite the other.           *)

NumHandlers == 2
Handlers == 1..NumHandlers

\* the requests served side by side: one that is decided, one with a wrong
\* content type, one without an inner request, one with a wrong method
ConcRequests ==
    { Request(m, ct, "whole", "json", hr, 1, "default", ipA \o <<":", "40000">>,
              MapObject(TRUE, 1, (ownerLabel :> ipA)),
              MapObject(TRUE, 1, (ownerLabel :> ipA))) :
        m \in {MethodPost, "GET"}, ct \in {jsonContentType, "text/plain"},
        hr \in BOOLEAN } \
    { Request("GET", ct, "whole", "json", hr, 1, "default", ipA \o <<":", "40000">>,
              MapObject(TRUE, 1, (ownerLabel :> ipA)),
              MapObject(TRUE, 1, (ownerLabel :> ipA))) :
        ct \in {"text/plain"}, hr \in BOOLEAN }

\* a goroutine serving one request: where it is, the value of errs it has
\* read for its append, what its error loop has logged, what it has written
Handler(r) ==
    [req |-> r, pc |-> "start", local |-> <<>>, logged |-> <<>>, resp |-> NoResponse]

\* what doServeAdmitFunc does with the request of handler h
Outcome(h) == doServeAdmitFunc(handlers[h].req, AdmitIP)

\* the entries appended to errs, each with the goroutine that appended it
Entries(h) ==
    [i \in 1..Len(Outcome(h).errsAdded) |-> [by |-> h, msg |-> Outcome(h).errsAdded[i]]]

InitConc ==
    /\ handlers \in [Handlers -> { Handler(r) : r \in ConcRequests }]
    /\ errs = <<>>
    /\ WebIdle /\ ReplayIdle /\ KafkaIdle /\ BrokerIdle /\ SeqIdle

\* append(errs, ...) of lines 61, 69, 81, 85: the operand errs is read
ReadErrs(h) ==
    /\ handlers[h].pc = "start"
    /\ Outcome(h).errsAdded # <<>>
    /\ handlers' = [handlers EXCEPT ![h].pc = "append", ![h].local = errs]
    /\ UNCHANGED <<errs, webVars, replayVars, kafkaVars, brokerVars, seqVars>>

\* errs = append(...): the result is stored
WriteErrs(h) ==
    /\ handlers[h].pc = "append"
    /\ errs' = handlers[h].local \o Entries(h)
    /\ handlers' = [handlers EXCEPT ![h].pc = "returned"]
    /\ UNCHANGED <<webVars, replayVars, kafkaVars, brokerVars, seqVars>>

\* doServeAdmitFunc returns on a path that does not touch errs
ReturnDirect(h) ==
    /\ handlers[h].pc = "start"
    /\ Outcome(h).errsAdded = <<>>
    /\ handlers' = [handlers EXCEPT ![h].pc = "returned"]
    /\ UNCHANGED <<errs, webVars, replayVars, kafkaVars, brokerVars, seqVars>>

\* serveAdmitFunc lines 182-188: on an error, every element of errs is
\* logged, then the error is written
LogErrs(h) ==
    /\ handlers[h].pc = "returned"
    /\ Outcome(h).ret = "err"
    /\ handlers' = [handlers EXCEPT ![h].pc = "done", ![h].logged = errs,
                                    ![h].resp = serveAdmitFunc(Outcome(h))]
    /\ UNCHANGED <<errs, webVars, replayVars, kafkaVars, brokerVars, seqVars>>

\* serveAdmitFunc lines 189-192: the bytes are written
WriteBytes(h) ==
    /\ handlers[h].pc = "returned"
    /\ Outcome(h).ret # "err"
    /\ handlers' = [handlers EXCEPT ![h].pc = "done",
                                    ![h].resp = serveAdmitFunc(Outcome(h))]
    /\ UNCHANGED <<errs, webVars, replayVars, kafkaVars, brokerVars, seqVars>>

NextConc ==
    \E h \in Handlers :
        \/ ReadErrs(h)
        \/ WriteErrs(h)
        \/ ReturnDirect(h)
        \/ LogErrs(h)
        \/ WriteBytes(h)

SpecConc == InitConc /\ [][NextConc]_vars

-----------------------------------------------------------------------------
(* Publishes running side by side: each denial calls                       *)
(* queueResourceForReconcile on its own goroutine, against one Kafka       *)
(* cluster.  A call is taken step by step; a step fails when the cluster   *)
(* side makes it fail.                                                     *)

NumPublishers == 2
Publishers == 1..NumPublishers

heimdallTopic == "heimdall-topic"
NumPartitions == 2
ReplicationFactor == 1

\* kafka.TopicDetail{NumPartitions: 2, ReplicationFactor: 1} under its name
TopicDetail ==
    [name |-> heimdallTopic, partitions |-> NumPartitions,
     replication |-> ReplicationFactor]
NoTopic == [name |-> "", partitions |-> 0, replication |-> 0]

\* one call of queueResourceForReconcile: where it is, the steps it has
\* attempted, what DescribeTopics and CreateTopic told it, the error it
\* returned and the messages it sent
Publisher ==
    [pc |-> "start", steps |-> <<>>, described |-> "none", created |-> "none",
     err |-> Nil, sent |-> 0]

InitKafka ==
    /\ publishers = [p \in Publishers |-> Publisher]
    /\ kafka \in { [topic |-> t, messages |-> <<>>] : t \in {NoTopic, TopicDetail} }
    /\ errs = <<>>
    /\ WebIdle /\ ReplayIdle /\ ConcIdle /\ BrokerIdle /\ SeqIdle

\* the error of a step kept while the call stays at the step, which is then
\* attempted again
Failed_retry(p, step) ==
    [publishers EXCEPT ![p].err = Errorf(<<step>>)]

\* return err out of queueResourceForReconcile
Failed(p, step) ==
    [publishers EXCEPT ![p].pc = "failed", ![p].err = Errorf(<<step>>)]
Attempt(pubs, p, step) ==
    [pubs EXCEPT ![p].steps = Append(@, step)]

\* main.go:148-152: getBrokerList
Discover(p) ==
    /\ publishers[p].pc = "start"
    /\ \E ok \in BOOLEAN :
          publishers' = Attempt(IF ok THEN [publishers EXCEPT ![p].pc = "discovered"]
                                ELSE Failed(p, "discovery"), p, "discovery")
    /\ UNCHANGED <<kafka, errs, webVars, replayVars, concVars, brokerVars, seqVars>>

\* main.go:163-167: kafka.NewSyncProducer
Connect(p) ==
    /\ publishers[p].pc = "discovered"
    /\ \E ok \in BOOLEAN :
          publishers' = Attempt(IF ok THEN [publishers EXCEPT ![p].pc = "connected"]
                                ELSE Failed(p, "connect"), p, "connect")
    /\ UNCHANGED <<kafka, errs, webVars, replayVars, concVars, brokerVars, seqVars>>

\* main.go:170 and 120-123: createKafkaTopic is entered, kafka.NewClusterAdmin
NewClusterAdmin(p) ==
    /\ publishers[p].pc = "connected"
    /\ \E ok \in BOOLEAN :
          publishers' = Attempt(IF ok THEN [publishers EXCEPT ![p].pc = "admin"]
                                ELSE Failed(p, "topic"), p, "topic")
    /\ UNCHANGED <<kafka, errs, webVars, replayVars, concVars, brokerVars, seqVars>>

\* main.go:127-131: admin.DescribeTopics; a metadata response carries one
\* entry for the one topic asked about, whether or not the topic is there
\* (a missing topic is an entry with its Err set), so with no error the
\* guard err == nil && len(topicMetadata) == 1 holds and createKafkaTopic
\* returns nil; CreateTopic is reached when DescribeTopics fails
DescribeTopics(p) ==
    /\ publishers[p].pc = "admin"
    /\ \E ok \in BOOLEAN :
          publishers' =
              [publishers EXCEPT ![p].pc = IF ok THEN "ensured" ELSE "creating",
                                 ![p].described = IF ok THEN "found" ELSE "error"]
    /\ UNCHANGED <<kafka, errs, webVars, replayVars, concVars, brokerVars, seqVars>>

\* main.go:134-143: admin.CreateTopic; the cluster refuses a topic that is
\* already there, and any error is returned
CreateTopic(p) ==
    /\ publishers[p].pc = "creating"
    /\ \/ /\ kafka.topic # NoTopic
          /\ publishers' = [Failed(p, "topic") EXCEPT ![p].created = "exists"]
          /\ UNCHANGED kafka
       \/ /\ kafka.topic = NoTopic
          /\ publishers' = [publishers EXCEPT ![p].pc = "ensured", ![p].created = "created"]
          /\ kafka' = [kafka EXCEPT !.topic = TopicDetail]
       \/ /\ publishers' = [Failed(p, "topic") EXCEPT ![p].created = "error"]
          /\ UNCHANGED kafka
    /\ UNCHANGED <<errs, webVars, replayVars, concVars, brokerVars, seqVars>>

\* main.go:177-190: producer.SendMessage
SendMessage(p) ==
    /\ publishers[p].pc = "ensured"
    /\ \/ /\ publishers' = Attempt([publishers EXCEPT ![p].pc = "returned", ![p].sent = 1],
                                   p, "send")
          /\ kafka' = [kafka EXCEPT !.messages = Append(@, p)]
       \/ /\ publishers' = Attempt(Failed(p, "send"), p, "send")
          /\ UNCHANGED kafka
    /\ UNCHANGED <<errs, webVars, replayVars, concVars, brokerVars, seqVars>>

NextKafka ==
    \E p \in Publishers :
        \/ Discover(p)
        \/ Connect(p)
        \/ NewClusterAdmin(p)
        \/ DescribeTopics(p)
        \/ CreateTopic(p)
        \/ SendMessage(p)

SpecKafka == InitKafka /\ [][NextKafka]_vars

-----------------------------------------------------------------------------
(* Broker discovery: getBrokerList of main.go, applied to the services     *)
(* that the cluster lists under the Kafka cluster's label selector.        *)

MaxServices == 2

BrokerPort == "9092"
ClusterIPNone == <<"None">>

\* a listed service: its name (with or without "bootstrap" in it) and its
\* ClusterIP ("None" for a headless service)
ServiceNames ==
    { <<"heimdall-kafka-cluster", "-kafka-", "bootstrap">>,
      <<"heimdall-kafka-cluster", "-kafka-", "brokers">> }
ClusterIPs == { ClusterIPNone, <<"10.1.0.1">>, <<"10.1.0.2">> }
Services == { [name |-> n, clusterIP |-> ip] : n \in ServiceNames, ip \in ClusterIPs }
ServiceLists == UNION { [1..n -> Services] : n \in 0..MaxServices }

\* what can go wrong before the list is built: rest.InClusterConfig,
\* kubernetes.NewForConfig, Services(namespace).List
BrokerFaults == {"none", "config", "clientset", "list"}

\* strings.Contains(s, part), part one token
Contains(s, part) == \E i \in 1..Len(s) : s[i] = part

\* strings.Replace(s, " ", "", -1)
RECURSIVE RemoveSpaces(_)
RemoveSpaces(s) ==
    IF s = <<>> THEN <<>>
    ELSE IF Head(s) = " " THEN RemoveSpaces(Tail(s))
    ELSE <<Head(s)>> \o RemoveSpaces(Tail(s))

\* main.go:216-219: the element that the loop leaves at index i of the list
\* made with make([]string, len(svcList.Items))
brokerAddress(svc) ==
    IF svc.clusterIP # ClusterIPNone /\ Contains(svc.name, "bootstrap")
    THEN RemoveSpaces(svc.clusterIP \o <<":", BrokerPort>>)
    ELSE EmptyStr

\* getBrokerList(namespace, kafkaClusterName)
getBrokerList(fault, items) ==
    IF fault # "none" THEN [list |-> <<>>, err |-> Errorf(<<fault>>)]
    ELSE [list |-> [i \in 1..Len(items) |-> brokerAddress(items[i])], err |-> Nil]

NotListed == [called |-> FALSE, list |-> <<>>, err |-> Nil]

InitBrokers ==
    /\ services \in ServiceLists
    /\ brokerList = NotListed
    /\ errs = <<>>
    /\ WebIdle /\ ReplayIdle /\ ConcIdle /\ KafkaIdle /\ SeqIdle

\* one call of getBrokerList
GetBrokerList ==
    \E fault \in BrokerFaults :
        /\ ~ brokerList.called
        /\ brokerList' = [called |-> TRUE,
                          list |-> getBrokerList(fault, services).list,
                          err |-> getBrokerList(fault, services).err]
        /\ UNCHANGED <<services, errs, webVars, replayVars, concVars, kafkaVars, seqVars>>

NextBrokers == GetBrokerList

SpecBrokers == InitBrokers /\ [][NextBrokers]_vars

-----------------------------------------------------------------------------
(* One resource under a sequence of update requests: the API server sends  *)
(* each update to the webhook (cmd/admission with the policy of part_001,  *)
(* or part_000 with the policy of main.go) with the stored object as       *)
(* oldObject, stores the new object when the response allows the request   *)
(* and keeps the stored one otherwise (no response, or a body that is no   *)
(* review, fails the webhook call and with it the update).                 *)

MaxRequests == 2

\* the states of the resource: a spec, an owner label (or none), a label
\* outside allowedLabels (or none)
SeqObjects ==
    { MapObject(TRUE, s, l) :
        s \in 1..NumSpecs, l \in LabelMaps({ipA, ipB}, {}, {EmptyStr, valX}) }

\* no update handled yet
NoUpdate ==
    [admitted |-> FALSE, by |-> EmptyStr, owner |-> EmptyStr,
     spec |-> FALSE, label |-> FALSE]

\* the resource as created by its owner, with what has happened to it: the
\* number of updates handled, the requesters they came from, whether an
\* admitted one changed spec, and the last one handled
NewResource(prog, obj) ==
    [program |-> prog, stored |-> obj, owner |-> Lookup(obj.labels, ownerLabel),
     n |-> 0, senders |-> {}, specAdmitted |-> FALSE, last |-> NoUpdate]

\* the webhook programs: the transport of cmd/admission with the policy of
\* part_001, the transport of part_000 with the policy of main.go
Programs == {"admission", "policy"}

InitSeq ==
    /\ resource \in { NewResource(prog, obj) :
                        prog \in Programs,
                        obj \in { o \in SeqObjects :
                                    o.spec = 1 /\ Lookup(o.labels, ownerLabel) = ipA } }
    /\ errs = <<>>
    /\ WebIdle /\ ReplayIdle /\ ConcIdle /\ KafkaIdle /\ BrokerIdle

\* the admission review that the API server sends for an update to new
UpdateRequest(ra, new) ==
    Request(MethodPost, jsonContentType, "whole", "json", TRUE, 1, "default", ra,
            resource.stored, new)

\* the response of the webhook to it
Handled(ra, new, fault, first) ==
    IF resource.program = "admission"
    THEN serveAdmitFunc(doServeAdmitFunc(UpdateRequest(ra, new), AdmitIP))
    ELSE serveAdmitFunc(doServeAdmitFunc_p0(UpdateRequest(ra, new),
                                            AdmitPolicy(fault, first)))

\* the update as the history keeps it
Update(ra, new, ok) ==
    [admitted |-> ok, by |-> SplitHead(ra),
     owner |-> Lookup(resource.stored.labels, ownerLabel),
     spec |-> resource.stored.spec # new.spec,
     label |-> \E k \in LabelKeys \ allowedLabels :
                  \/ (k \in DOMAIN resource.stored.labels) # (k \in DOMAIN new.labels)
                  \/ /\ k \in DOMAIN resource.stored.labels /\ k \in DOMAIN new.labels
                     /\ resource.stored.labels[k] # new.labels[k]]

\* an update that the webhook allows: the new object is stored
UpdateAllowed ==
    \E ra \in RemoteAddrs, new \in SeqObjects, fault \in KafkaFaults, first \in LabelKeys :
        /\ resource.n < MaxRequests
        /\ Handled(ra, new, fault, first).kind = "review"
        /\ Handled(ra, new, fault, first).review.allowed
        /\ resource' = [resource EXCEPT
                           !.stored = new, !.n = @ + 1,
                           !.senders = @ \cup {SplitHead(ra)},
                           !.specAdmitted = @ \/ resource.stored.spec # new.spec,
                           !.last = Update(ra, new, TRUE)]
        /\ UNCHANGED <<errs, webVars, replayVars, concVars, kafkaVars, brokerVars>>

\* an update that the webhook does not allow: the stored object stays
UpdateDenied ==
    \E ra \in RemoteAddrs, new \in SeqObjects, fault \in KafkaFaults, first \in LabelKeys :
        /\ resource.n < MaxRequests
        /\ ~ ( /\ Handled(ra, new, fault, first).kind = "review"
               /\ Handled(ra, new, fault, first).review.allowed )
        /\ resource' = [resource EXCEPT
                           !.n = @ + 1,
                           !.senders = @ \cup {SplitHead(ra)},
                           !.last = Update(ra, new, FALSE)]
        /\ UNCHANGED <<errs, webVars, replayVars, concVars, kafkaVars, brokerVars>>

NextSeq == UpdateAllowed \/ UpdateDenied

SpecSeq == InitSeq /\ [][NextSeq]_vars

-----------------------------------------------------------------------------
(* Properties *)

\* the requester address of the request at hand
Requester == SplitHead(req.remoteAddr)
\* an object whose bytes decode into an Unstructured
Decodable(obj) == obj.shape = "map" /\ obj.hasKind
\* the owner label value of the existing object
OwnerOfExisting == Lookup(req.oldObject.labels, ownerLabel)
\* the policy of main.go has decided the request at hand
PolicyDecided == pc \in {"decide", "policy"} /\ dec.called
\* the request at hand is a change of decoded objects by a non-owner
NonOwnerChange ==
    /\ Decodable(req.oldObject) /\ Decodable(req.object)
    /\ Requester # OwnerOfExisting

\* C1: whenever processResourceChanges of main.go has decided a request of a
\* non-owner whose decoded old and new objects differ in spec, it has
\* returned an error (a denial) and made exactly one call of
\* queueResourceForReconcile.
C1_NonOwnerSpecChangeDenied ==
    (PolicyDecided /\ NonOwnerChange /\ req.oldObject.spec # req.object.spec)
        => (~ dec.err.nil /\ dec.publishes = 1)

C1_Witness ==
    /\ pc = "decide" /\ NonOwnerChange /\ req.oldObject.spec # req.object.spec
    /\ OwnerOfExisting = ipA /\ Requester = ipB
    /\ ~ dec.err.nil /\ dec.publishes = 1 /\ dec.path = "spec"

\* C2: every response that doServeAdmitFunc (cmd/admission and part_000)
\* produces for a request in kube-system or kube-public has allowed=true and
\* no patch, and admit was not called.
C2_ReservedNamespaceAllowed ==
    ( /\ pc \in {"admission", "policy"}
      /\ req.namespace \in {"kube-system", "kube-public"}
      /\ out.ret = "bytes" )
        => ( /\ resp.kind = "review" /\ resp.review.allowed
             /\ resp.review.patch = "absent" /\ ~ dec.called )

\* C3: whenever a policy function has decided a request whose requester is
\* the owner (for main.go the owner label of the decoded existing object, for
\* part_001 the owner it is handed), it has allowed it with no patch and no
\* publish attempt, whatever changed.
C3_OwnerAlwaysAllowed ==
    /\ (PolicyDecided /\ Decodable(req.oldObject) /\ Decodable(req.object)
          /\ Requester = OwnerOfExisting)
        => (dec.err.nil /\ dec.patchOps = "nil" /\ dec.publishes = 0)
    /\ (pc \in {"decideIP", "admission"} /\ dec.called /\ dec.sender = dec.owner)
        => (dec.err.nil /\ dec.patchOps = "nil" /\ dec.publishes = 0)

C3_Witness ==
    /\ pc = "decide" /\ Decodable(req.oldObject) /\ Decodable(req.object)
    /\ Requester = OwnerOfExisting /\ Requester = ipA
    /\ req.oldObject.spec # req.object.spec
    /\ Lookup(req.object.labels, teamLabel) # Lookup(req.oldObject.labels, teamLabel)
    /\ dec.err.nil /\ dec.publishes = 0

\* C4: whenever processResourceChanges of main.go has decided a request whose
\* decoded old and new objects are equal, it has allowed it with no patch
\* and no publish attempt, whoever the requester and the owner are.
C4_EqualObjectsAllowed ==
    (PolicyDecided /\ Decodable(req.oldObject) /\ req.oldObject = req.object)
        => (dec.err.nil /\ dec.patchOps = "nil" /\ dec.publishes = 0)

C4_Witness ==
    /\ pc = "decide" /\ Decodable(req.oldObject) /\ req.oldObject = req.object
    /\ OwnerOfExisting = ipA /\ Requester = ipB
    /\ dec.err.nil /\ dec.publishes = 0

\* label k is not the same in the old and the new object: added, removed or
\* given another value
LabelDiffers(k) ==
    \/ (k \in DOMAIN req.oldObject.labels) # (k \in DOMAIN req.object.labels)
    \/ /\ k \in DOMAIN req.oldObject.labels /\ k \in DOMAIN req.object.labels
       /\ req.oldObject.labels[k] # req.object.labels[k]
ExemptKeys == {"app.heimdall.io/owner", "app.heimdall.io/priority"}
\* the token sequence part occurs in the message
Mentions(message, part) ==
    \E i \in 0..(Len(message) - Len(part)) : SubSeq(message, i + 1, i + Len(part)) = part
\* the request at hand passes the transport validation of doServeAdmitFunc
TransportOK ==
    /\ req.method = "POST" /\ req.contentType = "application/json"
    /\ ReadAll(req) /\ req.encoding = "json" /\ req.hasRequest

\* C5: whenever processResourceChanges of main.go has decided a non-owner
\* request with spec unchanged, it has denied it if a label outside
\* {owner, priority} was added, changed or removed, and allowed it if the
\* labels differ only on keys inside that set.
C5_LabelRule ==
    (PolicyDecided /\ NonOwnerChange /\ req.oldObject.spec = req.object.spec)
        => /\ (\E k \in LabelKeys \ ExemptKeys : LabelDiffers(k)) => ~ dec.err.nil
           /\ ( /\ \A k \in LabelKeys \ ExemptKeys : ~ LabelDiffers(k)
                /\ \E k \in ExemptKeys : LabelDiffers(k) ) => dec.err.nil

\* C6: a call of queueResourceForReconcile has been made only if the policy
\* has denied a change of decoded, different objects by a non-owner that
\* changes spec or a non-exempt label; and, behind a transport, only for a
\* well-formed request outside the reserved namespaces, answered by a denial.
C6_PublishOnlyOnPolicyDenial ==
    dec.publishes > 0 =>
        /\ PolicyDecided /\ ~ dec.err.nil
        /\ NonOwnerChange /\ req.oldObject # req.object
        /\ \/ req.oldObject.spec # req.object.spec
           \/ \E k \in LabelKeys \ ExemptKeys : LabelDiffers(k)
        /\ pc = "policy" =>
              /\ TransportOK /\ req.namespace \notin {"kube-system", "kube-public"}
              /\ resp.kind = "review" /\ ~ resp.review.allowed

C6_Witness ==
    /\ pc = "policy" /\ dec.publishes = 1 /\ dec.path = "label" /\ dec.sent = 1
    /\ resp.kind = "review" /\ ~ resp.review.allowed

\* C7: whenever doServeAdmitFunc (of cmd/admission, part_000 or
\* cmd/webhook-server) has called admit and returned a response, the response
\* is allowed with no result message if admit returned no error, and denied
\* with admit's error string as its message if admit returned an error.
C7_ExactlyAllowOrDeny ==
    (pc \in {"admission", "policy", "webhook"}
       /\ dec.called /\ out.ret = "bytes")
        => /\ resp.kind = "review"
           /\ dec.err.nil => (resp.review.allowed /\ ~ resp.review.hasResult)
           /\ ~ dec.err.nil => /\ ~ resp.review.allowed /\ resp.review.hasResult
                               /\ resp.review.message = dec.err.msg

\* C8: whenever doServeAdmitFunc (of cmd/admission or part_000) has returned
\* without error for a request that passed transport validation, the response
\* is an admission review with the request's UID, and a denial has no patch.
C8_ResponseEchoesUID ==
    (pc \in {"admission", "policy"} /\ TransportOK
       /\ out.ret \in {"bytes", "nil"})
        => /\ resp.kind = "review" /\ resp.review.uid = req.uid
           /\ ~ resp.review.allowed => resp.review.patch = "absent"

\* C9: whenever the one publish attempt of a policy denial has failed, the
\* response is an admission review with allowed=false, under status 200.
C9_PublishFailureStillDenied ==
    (pc = "policy" /\ dec.publishes = 1 /\ dec.sent = 0)
        => /\ resp.kind = "review" /\ ~ resp.review.allowed
           /\ resp.status = 200

C9_Witness ==
    /\ pc = "policy" /\ dec.publishes = 1 /\ dec.sent = 0 /\ dec.path = "spec"
    /\ Mentions(dec.err.msg, <<"ERROR: failed to queue resource for reconcile: ", "send">>)
    /\ resp.kind = "review" /\ ~ resp.review.allowed /\ resp.status = 200

\* C10: whenever the policy of main.go has denied a non-owner's change, the
\* error message says why: for a spec change it says that a non-owner cannot
\* change Spec and names the requester, for a label change it names the key
\* and value of a changed non-exempt label of the new object; whether or not
\* the publish attempt succeeded.
C10_DenialMessageExplains ==
    (PolicyDecided /\ NonOwnerChange /\ ~ dec.err.nil)
        => IF req.oldObject.spec # req.object.spec
           THEN Mentions(dec.err.msg,
                         <<"DENIED: non-owner ">> \o Requester \o <<" cannot change Spec">>)
           ELSE \E k \in DOMAIN req.object.labels \ ExemptKeys :
                   /\ LabelDiffers(k)
                   /\ Mentions(dec.err.msg, <<k, ": ">> \o req.object.labels[k])

\* the status that the outcome class of the request at hand calls for
StatusOfClass ==
    IF req.method # "POST" THEN 405
    ELSE IF \/ ~ ReadAll(req) \/ req.contentType # "application/json"
            \/ req.encoding # "json" \/ ~ req.hasRequest THEN 400
    ELSE 200

\* C11: whenever the handler of cmd/admission (or of part_000) has written a
\* response, its status is 405 for a non-POST method, 400 for an unreadable
\* body, a wrong content type, an undecodable envelope or a missing inner
\* request, and 200 for every admission decision; it is never 500 (no
\* serialization fails), and the WriteHeader(500) of serveAdmitFunc leaves a
\* status that doServeAdmitFunc has written as it is.
C11_StatusByOutcomeClass ==
    (pc \in {"admission", "policy"} /\ resp.kind # "none")
        => /\ resp.status = StatusOfClass
           /\ resp.status # 500
           /\ (resp.kind = "review") => (resp.status = 200)
           /\ (out.ret = "err" /\ out.header \in {400, 405}) => (resp.status = out.header)

C11_Witness ==
    /\ pc = "admission" /\ req.method = "GET"
    /\ out.ret = "err" /\ out.header = 405
    /\ resp.kind = "text" /\ resp.status = 405

\* C12: whenever serveAdmitFunc (around the doServeAdmitFunc of cmd/admission
\* or of part_000) has handled a request, a response has been written; and
\* if the request is a POST with JSON content type whose body decodes to an
\* admission review with an inner request, that response is an admission
\* review, whatever the object and oldObject fields hold.
C12_ExactlyOneResponse ==
    (pc \in {"admission", "policy"})
        => /\ resp.kind # "none"
           /\ TransportOK => resp.kind = "review"

\* C13: whenever processResourceChanges of main.go has been called twice on
\* the same request (same old and new object, same requester), the two calls
\* have returned the same outcome: both allow, or both deny with the same
\* message.
C13_ReplayDeterministic ==
    (pc = "replayed")
        => /\ dec.err.nil = replay.err.nil
           /\ dec.err.msg = replay.err.msg

\* handler h is about to store into errs, or about to read it
AboutToWriteErrs(h) == handlers[h].pc = "append"
AboutToReadErrs(h) ==
    \/ handlers[h].pc = "start" /\ Outcome(h).errsAdded # <<>>
    \/ handlers[h].pc = "returned" /\ Outcome(h).ret = "err"

\* C14: at every point of every interleaving of the handlers, no handler is
\* about to write a variable that another handler is about to read or write,
\* and what a handler has logged consists of entries of its own request
\* only.
C14_HandlersIndependent ==
    /\ \A h1, h2 \in DOMAIN handlers :
          (h1 # h2 /\ AboutToWriteErrs(h1))
              => ~ (AboutToWriteErrs(h2) \/ AboutToReadErrs(h2))
    /\ \A h \in DOMAIN handlers :
          \A i \in 1..Len(handlers[h].logged) : handlers[h].logged[i].by = h

\* C15: whenever doServeAdmitFunc (of cmd/admission, part_000 or
\* cmd/webhook-server) has handled a POST request whose Content-Type is not
\* application/json, it has failed and has not read the body.
C15_ContentTypeBeforeBody ==
    ( /\ pc \in {"admission", "policy", "webhook"}
      /\ req.method = "POST" /\ req.contentType # "application/json" )
        => (out.ret = "err" /\ ~ out.bodyRead)

\* C16: whenever processResourceChanges of main.go has decided a non-owner
\* request with spec unchanged in which a key outside {owner, priority} is
\* absent from the old object and present in the new one, with whatever
\* value, it has denied the request.
C16_AbsentLabelIsDistinct ==
    ( /\ PolicyDecided /\ NonOwnerChange /\ req.oldObject.spec = req.object.spec
      /\ \E k \in LabelKeys \ ExemptKeys :
            k \notin DOMAIN req.oldObject.labels /\ k \in DOMAIN req.object.labels )
        => ~ dec.err.nil

\* C17: whenever a handler has called the policy and the policy has compared
\* the requester with an owner, for an existing object that carries an owner
\* label, that owner is the value of the label on the existing object; and
\* the handler of part_000 calls the policy for every decodable request
\* outside the reserved namespaces, whatever owner label the new object
\* carries.
C17_OwnerFromExistingObject ==
    /\ ( /\ pc \in {"admission", "policy"}
         /\ dec.called /\ dec.path \in {"owner", "mismatch", "spec", "label", "pass"}
         /\ Lookup(GetLabels(req.oldObject), ownerLabel) # EmptyStr )
           => dec.owner = Lookup(GetLabels(req.oldObject), ownerLabel)
    /\ ( /\ pc = "policy" /\ TransportOK
         /\ req.oldObject.shape = "map" /\ req.object.shape = "map"
         /\ req.namespace \notin {"kube-system", "kube-public"} )
           => dec.called

\* C18: whenever a handler of cmd/admission or part_000 has handled a
\* well-formed request outside the reserved namespaces for decodable objects
\* on which the owner label is not set (absent or empty, on the old and on
\* the new object), the response is an admission review with allowed=true,
\* whatever the requester and whatever the request changes.
C18_UnownedResourceAllowed ==
    ( /\ pc \in {"admission", "policy"} /\ TransportOK
      /\ Decodable(req.oldObject) /\ Decodable(req.object)
      /\ req.namespace \notin {"kube-system", "kube-public"}
      /\ Lookup(req.oldObject.labels, ownerLabel) = EmptyStr
      /\ Lookup(req.object.labels, ownerLabel) = EmptyStr )
        => (resp.kind = "review" /\ resp.review.allowed)

\* C19: at every point of every interleaving of the publishes, a topic that
\* is there is heimdall-topic with 2 partitions and replication factor 1,
\* a publish whose createKafkaTopic has returned nil has the topic there
\* (it was found or has been created), and a publish whose CreateTopic was
\* told that the topic already exists has not failed: its createKafkaTopic
\* returned nil and it goes on to send.
C19_TopicExistsIsNoError ==
    /\ kafka.topic # NoTopic =>
          kafka.topic = [name |-> "heimdall-topic", partitions |-> 2, replication |-> 1]
    /\ \A p \in DOMAIN publishers :
          publishers[p].pc \in {"ensured", "returned"} => kafka.topic # NoTopic
    /\ \A p \in DOMAIN publishers :
          publishers[p].created = "exists" =>
              /\ publishers[p].pc \in {"ensured", "returned"}
              /\ publishers[p].err.nil

\* the listed services that are bootstrap services with an assigned ClusterIP
Qualifying ==
    { i \in DOMAIN services :
        /\ services[i].clusterIP # <<"None">>
        /\ \E j \in 1..Len(services[i].name) : services[i].name[j] = "bootstrap" }

\* C20: whenever getBrokerList has returned without error, its list has one
\* entry clusterIP:9092 for each listed service that has an assigned
\* ClusterIP and "bootstrap" in its name, and no other entry; it is empty
\* when no listed service qualifies.
C20_OneEndpointPerBootstrapService ==
    (brokerList.called /\ brokerList.err.nil)
        => /\ Len(brokerList.list) = Cardinality(Qualifying)
           /\ \A i \in Qualifying :
                 \E j \in 1..Len(brokerList.list) :
                    brokerList.list[j] = services[i].clusterIP \o <<":", "9092">>
           /\ \A j \in 1..Len(brokerList.list) :
                 \E i \in Qualifying :
                    brokerList.list[j] = services[i].clusterIP \o <<":", "9092">>

\* the order of the steps of queueResourceForReconcile
StepOrder == <<"discovery", "connect", "topic", "send">>

\* C21: in every call of queueResourceForReconcile the steps attempted so
\* far are a prefix of discovery, connect, topic ensure, send (each at most
\* once and in that order); a call that has failed has returned the error of
\* the last step it attempted and has sent nothing; a call has sent at most
\* one message, and only after all four steps, with the topic found or
\* created; and a call that has returned, with or without an error, takes no
\* further step.
C21_EachStepAtMostOnce ==
    /\ [](\A p \in DOMAIN publishers :
            LET c == publishers[p] IN
            /\ Len(c.steps) <= 4 /\ c.steps = SubSeq(StepOrder, 1, Len(c.steps))
            /\ c.pc = "failed" =>
                  /\ ~ c.err.nil /\ c.err.msg = <<c.steps[Len(c.steps)]>>
                  /\ c.sent = 0
            /\ c.sent <= 1
            /\ Cardinality({ i \in DOMAIN kafka.messages : kafka.messages[i] = p }) = c.sent
            /\ c.sent = 1 =>
                  /\ c.steps = StepOrder /\ c.pc = "returned" /\ c.err.nil
                  /\ (c.described = "found" \/ c.created = "created"))
    /\ [][\A p \in DOMAIN publishers :
            publishers[p].pc \in {"failed", "returned"} => publishers'[p] = publishers[p]]_vars

C21_Witness ==
    \E p, q \in DOMAIN publishers :
        /\ publishers[p].pc = "failed" /\ publishers[p].steps = <<"discovery", "connect">>
        /\ publishers[p].sent = 0
        /\ publishers[q].pc = "returned" /\ publishers[q].sent = 1
        /\ publishers[q].created = "created"

\* C22: along every sequence of updates to one resource, an admitted update
\* that changed spec or a label outside {owner, priority} while the stored
\* object carried an owner label came from the requester named by that
\* label; and as long as every update came from requesters other than the
\* owner that the resource started with, no admitted update has changed
\* spec.
C22_OnlyOwnerChangesSpec ==
    /\ ( /\ resource.last.admitted /\ resource.last.owner # <<>>
         /\ (resource.last.spec \/ resource.last.label) )
           => resource.last.by = resource.last.owner
    /\ (resource.owner \notin resource.senders) => ~ resource.specAdmitted

====
